---------------------------- MODULE Spec2Model ----------------------------
(***************************************************************************)
(* A model of job_watcher.py: the salary parser extract_salary_in_inr, the *)
(* four site scrapers' filters, the seen_jobs ledger (SQLite) and run().   *)
(*                                                                         *)
(* Text is modelled as a sequence of characters, each character a string   *)
(* of length one; RUPEE stands for the one character U+20B9.               *)
(***************************************************************************)
EXTENDS Integers, Sequences, FiniteSets, TLC

VARIABLES
    store,        \* the seen_jobs table: id -> row
    clock,        \* what datetime.utcnow() returns
    pc,           \* per run: where run() is
    src,          \* per run: index of fn in SITE_HANDLERS
    jobs,         \* per run: the elements of jobs from the loop's j onwards
    all_jobs,     \* per run: run()'s list all_jobs
    log,          \* per run: the lines printed, without the values put in them
    arg_s,        \* extract_salary_in_inr's argument s
    ret_val,      \* extract_salary_in_inr's return value
    call_pc       \* "call" before extract_salary_in_inr runs, "return" after

vars == <<store, clock, pc, src, jobs, all_jobs, log, arg_s, ret_val, call_pc>>

\* Python's None where a str is expected: no text is the sequence <<"None">>
None == <<"None">>

\* Python's None where an int is expected: no int is negative in this program
NoneInt == -1

RUPEE == "U+20B9"

-----------------------------------------------------------------------------
(* Characters and strings *)

Digits == <<"0", "1", "2", "3", "4", "5", "6", "7", "8", "9">>

IsDigit(c) == \E i \in 1..10 : Digits[i] = c

DigitVal(c) == (CHOOSE i \in 1..10 : Digits[i] = c) - 1

\* \s of the re module, over the characters the model uses
IsSpace(c) == c \in {" ", "\t"}

Upper == <<"A", "B", "C", "D", "E", "F", "G", "H", "I", "J", "K", "L", "M",
           "N", "O", "P", "Q", "R", "S", "T", "U", "V", "W", "X", "Y", "Z">>

Lower == <<"a", "b", "c", "d", "e", "f", "g", "h", "i", "j", "k", "l", "m",
           "n", "o", "p", "q", "r", "s", "t", "u", "v", "w", "x", "y", "z">>

\* str.lower(), one character
LowerChar(c) ==
    IF \E i \in 1..26 : Upper[i] = c
    THEN Lower[CHOOSE i \in 1..26 : Upper[i] = c]
    ELSE c

RECURSIVE lower(_)
\* str.lower()
lower(t) ==
    IF t = <<>> THEN <<>> ELSE <<LowerChar(Head(t))>> \o lower(Tail(t))

RECURSIVE remove_char(_, _)
\* str.replace(c, "")
remove_char(t, c) ==
    IF t = <<>> THEN <<>>
    ELSE IF Head(t) = c THEN remove_char(Tail(t), c)
    ELSE <<Head(t)>> \o remove_char(Tail(t), c)

\* whether pattern k occurs in t at position i
OccursAt(t, k, i) ==
    /\ i + Len(k) - 1 <= Len(t)
    /\ \A j \in 1..Len(k) : t[i + j - 1] = k[j]

\* the Python expression  k in t  for two strings
Contains(t, k) == \E i \in 1..(Len(t) + 1) : OccursAt(t, k, i)

\* the length of the longest run of digits of t that starts at position i
DigitRun(t, i) ==
    LET Ends == {n \in 0..(Len(t) - i + 1) :
                    \A j \in i..(i + n - 1) : IsDigit(t[j])}
    IN  IF i > Len(t) THEN 0 ELSE CHOOSE n \in Ends : \A m \in Ends : m <= n

\* the length of the longest run of whitespace of t that starts at position i
SpaceRun(t, i) ==
    LET Ends == {n \in 0..(Len(t) - i + 1) :
                    \A j \in i..(i + n - 1) : IsSpace(t[j])}
    IN  IF i > Len(t) THEN 0 ELSE CHOOSE n \in Ends : \A m \in Ends : m <= n

RECURSIVE int(_)
\* int() of a string of decimal digits
int(ds) ==
    IF ds = <<>> THEN 0
    ELSE 10 * int(SubSeq(ds, 1, Len(ds) - 1)) + DigitVal(ds[Len(ds)])

-----------------------------------------------------------------------------
(* Python floats: IEEE 754 binary64, round to nearest, ties to even.       *)
(* A natural number of any size is a sequence of bits, most significant    *)
(* first; a float is [m, e] with m a 53-bit natural and value m * 2^e, or   *)
(* FloatZero.                                                              *)

MantBits == 53

Zeros(n) == [i \in 1..n |-> 0]

\* b without its leading zero bits
StripZeros(b) ==
    IF \A i \in 1..Len(b) : b[i] = 0 THEN <<>>
    ELSE SubSeq(b, CHOOSE i \in 1..Len(b) :
                       b[i] = 1 /\ \A j \in 1..(i - 1) : b[j] = 0, Len(b))

RECURSIVE NatToBits(_)
NatToBits(n) ==
    IF n = 0 THEN <<>> ELSE Append(NatToBits(n \div 2), n % 2)

RECURSIVE BitsToNat(_)
BitsToNat(b) ==
    IF b = <<>> THEN 0
    ELSE 2 * BitsToNat(SubSeq(b, 1, Len(b) - 1)) + b[Len(b)]

RECURSIVE MulAddW(_, _, _)
\* b * c + a, for small c and a: the low Len(b) bits, and the carry out of
\* them; the low half of b is done first and its carry enters the high half
MulAddW(b, c, a) ==
    IF b = <<>> THEN [bits |-> <<>>, carry |-> a]
    ELSE IF Len(b) = 1
    THEN [bits |-> <<(b[1] * c + a) % 2>>, carry |-> (b[1] * c + a) \div 2]
    ELSE LET h  == Len(b) \div 2
             lo == MulAddW(SubSeq(b, h + 1, Len(b)), c, a)
             hi == MulAddW(SubSeq(b, 1, h), c, lo.carry)
         IN  IF lo.carry >= 0       \* the low half is computed first
             THEN [bits |-> hi.bits \o lo.bits, carry |-> hi.carry]
             ELSE lo

\* b * c + a, for small c and a
MulAdd(b, c, a) ==
    LET r == MulAddW(b, c, a) IN NatToBits(r.carry) \o r.bits

RECURSIVE DivRem(_, _, _)
\* long division of b by small d, entered with remainder r: [q, r]; the high
\* half of b is done first and its remainder enters the low half
DivRem(b, d, r) ==
    IF b = <<>> THEN [q |-> <<>>, r |-> r]
    ELSE IF Len(b) = 1
    THEN [q |-> <<(2 * r + b[1]) \div d>>, r |-> (2 * r + b[1]) % d]
    ELSE LET h  == Len(b) \div 2
             hi == DivRem(SubSeq(b, 1, h), d, r)
             lo == DivRem(SubSeq(b, h + 1, Len(b)), d, hi.r)
         IN  IF hi.r >= 0           \* the high half is computed first
             THEN [q |-> hi.q \o lo.q, r |-> lo.r]
             ELSE hi

RECURSIVE DecToBits(_)
DecToBits(ds) ==
    IF ds = <<>> THEN <<>>
    ELSE MulAdd(DecToBits(SubSeq(ds, 1, Len(ds) - 1)), 10, DigitVal(ds[Len(ds)]))

RECURSIVE Pow10(_)
Pow10(n) == IF n = 0 THEN 1 ELSE 10 * Pow10(n - 1)

FloatZero == [m |-> <<>>, e |-> 0]

\* the float nearest to n * 2^e (+ a nonzero fraction below n's last bit when
\* sticky), for n of at least MantBits + 2 bits
Round(n, e, sticky) ==
    LET L     == Len(n)
        top   == SubSeq(n, 1, MantBits)
        guard == n[MantBits + 1]
        rest  == sticky \/ \E i \in (MantBits + 2)..L : n[i] = 1
        up    == guard = 1 /\ (rest \/ top[MantBits] = 1)
        m1    == IF up THEN MulAdd(top, 1, 1) ELSE top
    IN  IF Len(m1) > MantBits
        THEN [m |-> SubSeq(m1, 1, MantBits), e |-> e + L - MantBits + 1]
        ELSE [m |-> m1, e |-> e + L - MantBits]

\* float(s) for s = digits, or digits "." digits
float(s) ==
    LET ip   == DigitRun(s, 1)
        frac == IF ip < Len(s) THEN SubSeq(s, ip + 2, Len(s)) ELSE <<>>
        n    == Len(frac)
        D    == StripZeros(DecToBits(SubSeq(s, 1, ip) \o frac))
        k    == MantBits + 7 + 4 * n
        qr   == DivRem(D \o Zeros(k), Pow10(n), 0)
    IN  IF D = <<>> THEN FloatZero
        ELSE Round(StripZeros(qr.q), 0 - k, qr.r # 0)

\* x * c for a float x and a small natural c
fmul(x, c) ==
    IF x = FloatZero THEN FloatZero
    ELSE Round(StripZeros(MulAdd(x.m, c, 0)) \o Zeros(2), x.e - 2, FALSE)

\* x / d for a float x and a small natural d
fdiv(x, d) ==
    IF x = FloatZero THEN FloatZero
    ELSE LET k  == 2 + Len(NatToBits(d))
             qr == DivRem(x.m \o Zeros(k), d, 0)
         IN  Round(StripZeros(qr.q), x.e - k, qr.r # 0)

\* int(x) for a float x >= 0: truncation
trunc(x) ==
    IF x = FloatZero THEN 0
    ELSE IF x.e >= 0 THEN BitsToNat(x.m \o Zeros(x.e))
    ELSE IF 0 - x.e >= MantBits THEN 0
    ELSE BitsToNat(SubSeq(x.m, 1, MantBits + x.e))

-----------------------------------------------------------------------------
(* extract_salary_in_inr.  re.search tries the start positions from left   *)
(* to right and returns the first match; at one start position a greedy    *)
(* quantifier takes the longest repetition that lets the rest match.  Each *)
(* Search operator returns the text of group 1, or NoMatch.                *)

NoMatch == <<"no match">>

\* the shortest of a non-empty set of naturals
Min(S) == CHOOSE n \in S : \A m \in S : n <= m

\* the largest of a non-empty set of naturals
Max(S) == CHOOSE n \in S : \A m \in S : m <= n

\* re.search(r'₹\s*([0-9]+)', t)
SearchRupee(t) ==
    LET MatchLen(i) ==      \* lengths <<spaces, digits>> of the matches at i
            {w \in (0..SpaceRun(t, i + 1)) \X (1..Len(t)) :
                /\ t[i] = RUPEE
                /\ w[2] <= DigitRun(t, i + 1 + w[1])}
        Starts == {i \in 1..Len(t) : MatchLen(i) # {}}
    IN  IF Starts = {} THEN NoMatch
        ELSE LET i  == Min(Starts)
                 ws == Max({w[1] : w \in MatchLen(i)})
                 ds == Max({w[2] : w \in {x \in MatchLen(i) : x[1] = ws}})
             IN  SubSeq(t, i + 1 + ws, i + ws + ds)

\* re.search(r'([0-9]+)\s*k', t)
SearchK(t) ==
    LET MatchLen(i) ==      \* lengths <<digits, spaces>> of the matches at i
            {w \in (1..DigitRun(t, i)) \X (0..Len(t)) :
                /\ w[2] <= SpaceRun(t, i + w[1])
                /\ OccursAt(t, <<"k">>, i + w[1] + w[2])}
        Starts == {i \in 1..Len(t) : MatchLen(i) # {}}
    IN  IF Starts = {} THEN NoMatch
        ELSE LET i  == Min(Starts)
                 ds == Max({w[1] : w \in MatchLen(i)})
             IN  SubSeq(t, i, i + ds - 1)

\* re.search(r'([0-9]+(?:\.[0-9]+)?)\s*lpa', t)
SearchLpa(t) ==
    LET NumLens(i) ==       \* lengths of [0-9]+(?:\.[0-9]+)? at i
            {n \in 1..(Len(t) - i + 1) :
                \E a \in 1..DigitRun(t, i) :
                    \/ n = a
                    \/ /\ OccursAt(t, <<".">>, i + a)
                       /\ n - a - 1 \in 1..DigitRun(t, i + a + 1)}
        MatchLen(i) ==      \* lengths <<number, spaces>> of the matches at i
            {w \in NumLens(i) \X (0..Len(t)) :
                /\ w[2] <= SpaceRun(t, i + w[1])
                /\ OccursAt(t, <<"l", "p", "a">>, i + w[1] + w[2])}
        Starts == {i \in 1..Len(t) : MatchLen(i) # {}}
    IN  IF Starts = {} THEN NoMatch
        ELSE LET i == Min(Starts)
                 n == Max({w[1] : w \in MatchLen(i)})
             IN  SubSeq(t, i, i + n - 1)

\* 100000 and 12 of  int((lakhs * 100000) / 12)
RupeesPerLakh == 100000

MonthsPerYear == 12

\* 1000 of  int(m.group(1)) * 1000
RupeesPerK == 1000

extract_salary_in_inr(s0) ==
    IF s0 = None \/ s0 = <<>> THEN NoneInt
    ELSE LET s  == lower(remove_char(s0, ","))
             m1 == SearchRupee(s)
             m2 == SearchK(s)
             m3 == SearchLpa(s)
         IN  IF m1 # NoMatch THEN int(m1)
             ELSE IF m2 # NoMatch THEN int(m2) * RupeesPerK
             ELSE IF m3 # NoMatch
                  THEN trunc(fdiv(fmul(float(m3), RupeesPerLakh), MonthsPerYear))
             ELSE NoneInt

-----------------------------------------------------------------------------
(* The arguments extract_salary_in_inr is applied to: every string of at   *)
(* most MaxLen characters of SalaryAlphabet, and the amounts of            *)
(* SalaryNumbers written with and without a currency sign, a gap and a     *)
(* unit.                                                                   *)

MaxLen == 3

SalaryAlphabet == {RUPEE, ",", "0", "2", "5", "k", "K", ".", " ", "l", "p", "a"}

RECURSIVE Strings(_)
\* the strings of length n over SalaryAlphabet
Strings(n) ==
    IF n = 0 THEN {<<>>}
    ELSE {Append(t, c) : t \in Strings(n - 1), c \in SalaryAlphabet}

SalaryNumbers ==
    {<<"2", "5", ",", "0", "0", "0">>,
     <<"2", "2", ",", "0", "0", "0">>,
     <<"1", "5">>,
     <<"2", "0">>,
     <<"2", ".", "4">>,
     <<"1", ".", "1", "4">>,
     <<"0", ".", "5", "7">>,
     <<"3">>,
     <<"0">>,
     <<"2", ".", "5">>}

SalarySigns == {<<>>, <<RUPEE>>, <<RUPEE, " ">>}

SalaryGaps == {<<>>, <<" ">>}

SalaryUnits ==
    {<<>>, <<"k">>,
     <<"K">>,
     <<"l", "p", "a">>,
     <<"L", "P", "A">>,
     <<"/", "m", "o", "n", "t", "h">>}

Garbage == <<"g", "a", "r", "b", "a", "g", "e">>

SalaryInputs ==
    {None, Garbage}
        \cup UNION {Strings(n) : n \in 0..MaxLen}
        \cup {a \o b \o c \o d : a \in SalarySigns, b \in SalaryNumbers,
                                 c \in SalaryGaps, d \in SalaryUnits}

-----------------------------------------------------------------------------
(* Configuration and the site scrapers.  A card is what a scraper reads    *)
(* off one element of the page: the fields it does not read are None.      *)

MIN_SALARY_INR == 20000

RESUME_KEYWORDS ==
    {<<"h", "t", "m", "l">>,
     <<"c", "s", "s">>,
     <<"j", "a", "v", "a", "s", "c", "r", "i", "p", "t">>,
     <<"f", "r", "o", "n", "t", " ", "e", "n", "d">>,
     <<"f", "r", "o", "n", "t", "e", "n", "d">>,
     <<"w", "e", "b", " ", "d", "e", "v", "e", "l", "o", "p", "e", "r">>,
     <<"w", "e", "b", " ", "d", "e", "s", "i", "g", "n">>,
     <<"u", "i">>,
     <<"u", "x">>,
     <<"r", "e", "a", "c", "t">>,
     <<"v", "u", "e">>,
     <<"a", "n", "g", "u", "l", "a", "r">>,
     <<"r", "e", "s", "p", "o", "n", "s", "i", "v", "e">>,
     <<"d", "e", "s", "i", "g", "n">>}

\* any(k in t for k in keywords) over text.lower()
text_contains_keywords(text) ==
    \E k \in RESUME_KEYWORDS : Contains(lower(text), k)

Remote == <<"r", "e", "m", "o", "t", "e">>

WorkFromHome == <<"w", "o", "r", "k", " ", "f", "r", "o", "m", " ", "h", "o", "m", "e">>

\* t[:n]
Slice(t, n) == SubSeq(t, 1, IF Len(t) < n THEN Len(t) ELSE n)

TitleLen == 60

SITE_HANDLERS == <<"Naukri", "Internshala", "Indeed", "AngelList">>

NSites == Len(SITE_HANDLERS)

\* the prefix of the id each scraper forms: f"naukri::{...}" and so on
IdPrefix(site) ==
    CASE site = "Naukri"      -> <<"n", "a", "u", "k", "r", "i", ":", ":">>
      [] site = "Internshala" -> <<"i", "n", "t", "e", "r", "n", "s", "h", "a", "l", "a", ":", ":">>
      [] site = "Indeed"      -> <<"i", "n", "d", "e", "e", "d", ":", ":">>
      [] site = "AngelList"   -> <<"a", "n", "g", "e", "l", "l", "i", "s", "t", ":", ":">>

WellfoundHost ==
    <<"h", "t", "t", "p", "s", ":", "/", "/", "w", "e", "l", "l", "f", "o", "u", "n", "d", ".", "c", "o", "m">>

\* lines 131-134, 168-171, 206-209, 235: the conditions that skip a card
Skips(site, card) ==
    LET title       == IF site \in {"Internshala", "Indeed"}
                       THEN Slice(card.title, TitleLen) ELSE card.title
        desc        == card.desc
        salary_text == card.salary_text
        salary      == extract_salary_in_inr(salary_text)
    IN  CASE site = "Naukri" ->
               \/ ~text_contains_keywords(title \o desc)
               \/ /\ ~Contains(lower(desc), Remote)
                  /\ ~Contains(lower(desc), WorkFromHome)
               \/ salary # NoneInt /\ salary < MIN_SALARY_INR
               \/ salary = NoneInt
          [] site = "Internshala" ->
               \/ ~text_contains_keywords(title \o desc)
               \/ ~Contains(lower(desc), WorkFromHome)
               \/ salary # NoneInt /\ salary < MIN_SALARY_INR
               \/ salary = NoneInt
          [] site = "Indeed" ->
               \/ ~text_contains_keywords(title \o desc)
               \/ /\ ~Contains(lower(desc), Remote)
                  /\ ~Contains(lower(desc), WorkFromHome)
               \/ salary # NoneInt /\ salary < MIN_SALARY_INR
               \/ salary = NoneInt
          [] site = "AngelList" ->
               ~text_contains_keywords(title)

Unknown == <<"U", "n", "k", "n", "o", "w", "n">>

InternshalaEmployer ==
    <<"I", "n", "t", "e", "r", "n", "s", "h", "a", "l", "a", " ", "E", "m", "p", "l", "o", "y", "e", "r">>

Startup == <<"S", "t", "a", "r", "t", "u", "p">>

\* lines 136-144, 173-181, 211-219, 236-244: the dict appended to results
\* (url and snippet are left out: run() stores and mails them and nothing
\* reads them back; no card has a company tag, so company is the default)
Result(site, card) ==
    CASE site = "Naukri" ->
           [id          |-> IdPrefix(site) \o
                            (IF card.jobid # None /\ card.jobid # <<>>
                             THEN card.jobid ELSE card.title),
            site        |-> site,
            title       |-> card.title,
            company     |-> Unknown,
            salary_text |-> card.salary_text]
      [] site = "Internshala" ->
           [id          |-> IdPrefix(site) \o Slice(card.title, TitleLen),
            site        |-> site,
            title       |-> Slice(card.title, TitleLen),
            company     |-> InternshalaEmployer,
            salary_text |-> card.salary_text]
      [] site = "Indeed" ->
           [id          |-> IdPrefix(site) \o Slice(card.title, TitleLen),
            site        |-> site,
            title       |-> Slice(card.title, TitleLen),
            company     |-> Unknown,
            salary_text |-> card.salary_text]
      [] site = "AngelList" ->
           [id          |-> IdPrefix(site) \o WellfoundHost \o card.href,
            site        |-> site,
            title       |-> card.title,
            company     |-> Startup,
            salary_text |-> None]

Sites == {SITE_HANDLERS[i] : i \in 1..NSites}

RECURSIVE search(_, _)
\* search_naukri, search_internshala, search_indeed, search_angellist once
\* the page is parsed: the loop over the page's cards
search(site, cards) ==
    IF cards = <<>> THEN <<>>
    ELSE IF Skips(site, Head(cards)) THEN search(site, Tail(cards))
    ELSE <<Result(site, Head(cards))>> \o search(site, Tail(cards))

-----------------------------------------------------------------------------
(* The pages the sites serve: at most MaxCards cards each, drawn from a    *)
(* few titles, descriptions and salaries.                                  *)

MaxCards == 2

Titles ==
    {<<"F", "r", "o", "n", "t", "e", "n", "d", " ", "D", "e", "v", "e", "l", "o", "p", "e", "r">>,
     <<"B", "a", "c", "k", "e", "n", "d", " ", "E", "n", "g", "i", "n", "e", "e", "r">>}

Descs ==
    {<<"R", "e", "m", "o", "t", "e">>,
     <<"W", "o", "r", "k", " ", "F", "r", "o", "m", " ", "H", "o", "m", "e">>,
     <<"O", "f", "f", "i", "c", "e">>}

SalaryTexts ==
    {None, <<"1", "5", "k">>, <<RUPEE, "2", "2", ",", "0", "0", "0">>}

JobIds == {None, <<"j", "1">>}

Hrefs == {<<"/", "j", "o", "b", "s", "/", "1">>}

Cards(site) ==
    CASE site = "Naukri" ->
           [jobid : JobIds, title : Titles, desc : Descs,
            salary_text : SalaryTexts, href : {None}]
      [] site \in {"Internshala", "Indeed"} ->
           [jobid : {None}, title : Titles, desc : Descs,
            salary_text : SalaryTexts, href : {None}]
      [] site = "AngelList" ->
           [jobid : {None}, title : Titles, desc : {None},
            salary_text : {None}, href : Hrefs]

\* the pairs <<site, search(site, <<c>>)>>: what a page of one card gives
OneCard ==
    UNION {{<<site, search(site, <<c>>)>> : c \in Cards(site)} : site \in Sites}

RECURSIVE ResultsOf(_, _)
\* the lists search(site, p) for the pages p of n cards: the list of the
\* page's first n - 1 cards followed by the list of its last card
ResultsOf(site, n) ==
    IF n = 0 THEN {<<>>}
    ELSE {r \o q[2] : r \in ResultsOf(site, n - 1),
                      q \in {x \in OneCard : x[1] = site}}

\* the pairs <<site, list>> of a site and a list its fn() of SITE_HANDLERS
\* can return when the page parses: a page has at most MaxCards cards
Results ==
    UNION {{<<site, r>> : r \in UNION {ResultsOf(site, n) : n \in 0..MaxCards}} :
                site \in Sites}

-----------------------------------------------------------------------------
(* The seen_jobs table *)

\* a schema step that drops the table before it creates it
DropAndCreate(table) == <<>>

\* CREATE TABLE IF NOT EXISTS seen_jobs
init_db(table) == table

\* a lookup that finds no row
NeverSeen(table, job_id) == FALSE

\* SELECT 1 FROM seen_jobs WHERE id = ?
job_seen(table, job_id) == job_id \in DOMAIN table

\* an insert that is never committed
NoInsert(table, j, now) == table

\* INSERT OR IGNORE INTO seen_jobs VALUES (...), first_seen = utcnow()
mark_job_seen(table, j, now) ==
    IF j.id \in DOMAIN table THEN table
    ELSE [x \in DOMAIN table \cup {j.id} |->
            IF x = j.id
            THEN [site |-> j.site, title |-> j.title, company |-> j.company,
                  first_seen |-> now]
            ELSE table[x]]

-----------------------------------------------------------------------------
(* run().  Each invocation is a process of its own (line 301, reached by  *)
(* python job_watcher.py); RunIds are the invocations that can be alive at *)
(* once.  A step is what run() does up to its next statement on the        *)
(* database or the network.                                                *)

RunIds == {1, 2}

MaxClock == 2

Site(r) == SITE_HANDLERS[src[r]]

Printed(r, line) == [log EXCEPT ![r] = @ \cup {line}]

\* the for loop over SITE_HANDLERS goes on to its next fn, or ends
NextSite(r) ==
    /\ src' = [src EXCEPT ![r] = @ + 1]
    /\ jobs' = [jobs EXCEPT ![r] = <<>>]
    /\ pc' = [pc EXCEPT ![r] = IF src[r] = NSites THEN "send" ELSE "fetch"]

\* the for loop over jobs goes on to its next j, or ends
NextJob(r) ==
    IF Tail(jobs[r]) = <<>> THEN NextSite(r)
    ELSE /\ jobs' = [jobs EXCEPT ![r] = Tail(@)]
         /\ pc' = [pc EXCEPT ![r] = "job_seen"]
         /\ src' = src

\* a loop without the try of lines 287-293: the exception leaves run()
Reraised(r) ==
    /\ log' = Printed(r, "Error in")
    /\ pc' = [pc EXCEPT ![r] = "raised"]
    /\ UNCHANGED <<src, jobs>>

\* line 292: except Exception as e: print("Error in", fn.__name__, e)
Caught(r) ==
    /\ log' = Printed(r, "Error in")
    /\ NextSite(r)

\* python job_watcher.py: run() enters, init_db() succeeds
StartRun(r) ==
    /\ pc[r] \in {"idle", "END", "raised"}
    /\ clock' = IF clock < MaxClock THEN clock + 1 ELSE clock
    /\ store' = init_db(store)
    /\ all_jobs' = [all_jobs EXCEPT ![r] = <<>>]
    /\ jobs' = [jobs EXCEPT ![r] = <<>>]
    /\ log' = [log EXCEPT ![r] = {}]
    /\ src' = [src EXCEPT ![r] = 1]
    /\ pc' = [pc EXCEPT ![r] = "fetch"]
    /\ UNCHANGED <<arg_s, ret_val, call_pc>>

\* init_db() raises sqlite3.Error: nothing in run() catches it
InitDbFails(r) ==
    /\ pc[r] \in {"idle", "END", "raised"}
    /\ clock' = IF clock < MaxClock THEN clock + 1 ELSE clock
    /\ all_jobs' = [all_jobs EXCEPT ![r] = <<>>]
    /\ jobs' = [jobs EXCEPT ![r] = <<>>]
    /\ log' = [log EXCEPT ![r] = {"Traceback sqlite3.Error"}]
    /\ src' = [src EXCEPT ![r] = 1]
    /\ pc' = [pc EXCEPT ![r] = "raised"]
    /\ UNCHANGED <<store, arg_s, ret_val, call_pc>>

\* jobs = fn(): the page is fetched and parsed, fn returns its results
Fetch(r) ==
    /\ pc[r] = "fetch"
    /\ \E res \in Results :
        /\ res[1] = Site(r)
        /\ IF res[2] = <<>> THEN NextSite(r)
           ELSE /\ jobs' = [jobs EXCEPT ![r] = res[2]]
                /\ pc' = [pc EXCEPT ![r] = "job_seen"]
                /\ src' = src
    /\ UNCHANGED <<store, clock, all_jobs, log, arg_s, ret_val, call_pc>>

\* jobs = fn(): requests.get or BeautifulSoup raises, fn prints and returns []
FetchFails(r) ==
    /\ pc[r] = "fetch"
    /\ log' = Printed(r, "error:")
    /\ NextSite(r)
    /\ UNCHANGED <<store, clock, all_jobs, arg_s, ret_val, call_pc>>

\* jobs = fn(): fn raises outside its try (a card without the tag it indexes)
ScraperRaises(r) ==
    /\ pc[r] = "fetch"
    /\ Caught(r)
    /\ UNCHANGED <<store, clock, all_jobs, arg_s, ret_val, call_pc>>

\* if not job_seen(j["id"]): all_jobs.append(j)
JobSeen(r) ==
    /\ pc[r] = "job_seen"
    /\ LET j == Head(jobs[r])
       IN  IF job_seen(store, j.id)
           THEN /\ NextJob(r)
                /\ all_jobs' = all_jobs
           ELSE /\ all_jobs' = [all_jobs EXCEPT ![r] = Append(@, j)]
                /\ pc' = [pc EXCEPT ![r] = "mark_job_seen"]
                /\ UNCHANGED <<src, jobs>>
    /\ UNCHANGED <<store, clock, log, arg_s, ret_val, call_pc>>

\* job_seen raises sqlite3.Error
JobSeenFails(r) ==
    /\ pc[r] = "job_seen"
    /\ Caught(r)
    /\ UNCHANGED <<store, clock, all_jobs, arg_s, ret_val, call_pc>>

\* mark_job_seen(j["id"], j["site"], j["title"], j["company"], j["url"])
MarkJobSeen(r) ==
    /\ pc[r] = "mark_job_seen"
    /\ store' = mark_job_seen(store, Head(jobs[r]), clock)
    /\ NextJob(r)
    /\ UNCHANGED <<clock, all_jobs, log, arg_s, ret_val, call_pc>>

\* mark_job_seen raises sqlite3.Error
MarkJobSeenFails(r) ==
    /\ pc[r] = "mark_job_seen"
    /\ Caught(r)
    /\ UNCHANGED <<store, clock, all_jobs, arg_s, ret_val, call_pc>>

\* else: print("No new jobs at", ...)
NoNewJobs(r) ==
    /\ pc[r] = "send"
    /\ all_jobs[r] = <<>>
    /\ log' = Printed(r, "No new jobs at")
    /\ pc' = [pc EXCEPT ![r] = "END"]
    /\ UNCHANGED <<store, clock, src, jobs, all_jobs, arg_s, ret_val, call_pc>>

\* send_email: EMAIL_USER, EMAIL_PASS or RECIPIENT_EMAIL is not set
CredentialsMissing(r) ==
    /\ pc[r] = "send"
    /\ all_jobs[r] # <<>>
    /\ log' = Printed(r, "Email credentials missing")
    /\ pc' = [pc EXCEPT ![r] = "END"]
    /\ UNCHANGED <<store, clock, src, jobs, all_jobs, arg_s, ret_val, call_pc>>

\* send_email: the server accepts the message with the jobs of all_jobs
SendEmail(r) ==
    /\ pc[r] = "send"
    /\ all_jobs[r] # <<>>
    /\ log' = Printed(r, "Email sent with")
    /\ pc' = [pc EXCEPT ![r] = "END"]
    /\ UNCHANGED <<store, clock, src, jobs, all_jobs, arg_s, ret_val, call_pc>>

\* send_email: smtplib raises (connect, starttls, login or send_message);
\* neither send_email nor run() catches it
SendEmailFails(r) ==
    /\ pc[r] = "send"
    /\ all_jobs[r] # <<>>
    /\ log' = Printed(r, "Traceback smtplib.SMTPException")
    /\ pc' = [pc EXCEPT ![r] = "raised"]
    /\ UNCHANGED <<store, clock, src, jobs, all_jobs, arg_s, ret_val, call_pc>>

Step(r) ==
    \/ StartRun(r)
    \/ InitDbFails(r)
    \/ Fetch(r)
    \/ FetchFails(r)
    \/ ScraperRaises(r)
    \/ JobSeen(r)
    \/ JobSeenFails(r)
    \/ MarkJobSeen(r)
    \/ MarkJobSeenFails(r)
    \/ NoNewJobs(r)
    \/ CredentialsMissing(r)
    \/ SendEmail(r)
    \/ SendEmailFails(r)

PipelineInit ==
    /\ store = <<>>
    /\ clock = 0
    /\ pc = [r \in RunIds |-> "idle"]
    /\ src = [r \in RunIds |-> 1]
    /\ jobs = [r \in RunIds |-> <<>>]
    /\ all_jobs = [r \in RunIds |-> <<>>]
    /\ log = [r \in RunIds |-> {}]

Init ==
    /\ PipelineInit
    /\ arg_s = None
    /\ ret_val = NoneInt
    /\ call_pc = "idle"

\* the scheduled runs, one after the other
Next == Step(1)

Spec == Init /\ [][Next]_vars


-----------------------------------------------------------------------------
(* The scheduler goes on starting runs, a run that can take a step takes  *)
(* one, and a server that is asked again and again accepts the message in  *)
(* the end.                                                                *)

SpecFair == Init /\ [][Next]_vars /\ WF_vars(Next) /\ SF_vars(SendEmail(1))

-----------------------------------------------------------------------------
(* Two invocations alive at once, each started once (nothing in           *)
(* job_watcher.py keeps a second python job_watcher.py from starting while *)
(* the first is running), with the sites and the database answering both   *)
(* without a fault.                                                        *)

FirstRun(r) == pc[r] = "idle" /\ StartRun(r)

OverlapStep(r) ==
    \/ FirstRun(r)
    \/ Fetch(r)
    \/ JobSeen(r)
    \/ MarkJobSeen(r)
    \/ NoNewJobs(r)
    \/ SendEmail(r)

NextOverlap == \E r \in RunIds : OverlapStep(r)

SpecOverlap == Init /\ [][NextOverlap]_vars

-----------------------------------------------------------------------------
(* extract_salary_in_inr called on its own, on each of SalaryInputs.       *)

InitSalary ==
    /\ PipelineInit
    /\ arg_s \in SalaryInputs
    /\ ret_val = NoneInt
    /\ call_pc = "call"

ExtractSalary ==
    /\ call_pc = "call"
    /\ ret_val' = extract_salary_in_inr(arg_s)
    /\ call_pc' = "return"
    /\ UNCHANGED <<store, clock, pc, src, jobs, all_jobs, log, arg_s>>

NextSalary == ExtractSalary

SpecSalary == InitSalary /\ [][NextSalary]_vars


-----------------------------------------------------------------------------
(* The Relevance Ranker of the specification (4.5).  job_watcher.py has no *)
(* ranker, so the score is taken from the specification's text: the cosine *)
(* of the term vectors of the profile and of a posting's title and         *)
(* company, in thousandths.  Every term weighs its frequency; an inverse   *)
(* document frequency, whose formula the specification leaves open, would  *)
(* change the scores below and not their order.                            *)

DefaultProfile ==
    <<"h", "t", "m", "l", " ", "c", "s", "s", " ",
      "j", "a", "v", "a", "s", "c", "r", "i", "p", "t", " ",
      "f", "r", "o", "n", "t", "e", "n", "d", " ",
      "w", "e", "b", " ", "d", "e", "v", "e", "l", "o", "p", "e", "r", " ",
      "u", "i", " ", "u", "x", " ", "r", "e", "a", "c", "t", " ",
      "r", "e", "s", "p", "o", "n", "s", "i", "v", "e", " ",
      "d", "e", "s", "i", "g", "n">>

\* the length of the word t starts with
WordRun(t) ==
    CHOOSE n \in 0..Len(t) :
        /\ \A k \in 1..n : t[k] # " "
        /\ n = Len(t) \/ t[n + 1] = " "

RECURSIVE Words(_)
Words(t) ==
    IF t = <<>> THEN <<>>
    ELSE IF WordRun(t) = 0 THEN Words(Tail(t))
    ELSE <<SubSeq(t, 1, WordRun(t))>> \o Words(SubSeq(t, WordRun(t) + 1, Len(t)))

\* term frequency
Count(w, ws) == Cardinality({i \in 1..Len(ws) : ws[i] = w})

RECURSIVE Dot(_, _, _)
\* the inner product of the term vectors of a and b over the terms given
Dot(terms, a, b) ==
    IF terms = {} THEN 0
    ELSE LET w == CHOOSE x \in terms : TRUE
         IN  Count(w, a) * Count(w, b) + Dot(terms \ {w}, a, b)

ScoreScale == 1000

\* cosine similarity, rounded to three decimal places, in thousandths
relevance_score(j) ==
    LET p     == Words(lower(DefaultProfile))
        d     == Words(lower(j.title \o <<" ">> \o j.company))
        terms == {p[i] : i \in 1..Len(p)} \cup {d[i] : i \in 1..Len(d)}
        pd    == Dot(terms, p, d)
        pp    == Dot(terms, p, p)
        dd    == Dot(terms, d, d)
    IN  IF pd = 0 THEN 0
        ELSE CHOOSE n \in 0..ScoreScale :
                /\ (2 * n - 1) * (2 * n - 1) * pp * dd
                       <= 4 * ScoreScale * ScoreScale * pd * pd
                /\ 4 * ScoreScale * ScoreScale * pd * pd
                       < (2 * n + 1) * (2 * n + 1) * pp * dd


-----------------------------------------------------------------------------
(* The properties.                                                         *)

\* the identifiers of the postings of a list
Ids(js) == {js[i].id : i \in 1..Len(js)}

\* every identifier a scraper can form from the pages
AllIds == UNION {Ids(res[2]) : res \in Results}

Last(js) == js[Len(js)]

\* C1: within one run, no two postings of the digest list all_jobs carry
\* the same identifier, whatever the pages hold.
DigestIdsDistinct ==
    \A r \in RunIds : \A i, k \in 1..Len(all_jobs[r]) :
        i # k => all_jobs[r][i].id # all_jobs[r][k].id

\* a run is about to ask job_seen about the identifier it admitted and
\* recorded last, met again further down the same page
SameIdMetAgain ==
    /\ pc[1] = "job_seen"
    /\ all_jobs[1] # <<>>
    /\ Head(jobs[1]).id = Last(all_jobs[1]).id
    /\ Head(jobs[1]).id \in DOMAIN store

\* C2: across the runs on one store, a row of seen_jobs is never removed nor
\* changed (first_seen included), and a posting is appended to a digest only
\* if its identifier has no row: a recorded identifier is never admitted
\* again by a later run.
LedgerAppendOnly ==
    [][/\ \A id \in DOMAIN store : id \in DOMAIN store' /\ store'[id] = store[id]
       /\ \A r \in RunIds :
            (all_jobs'[r] # all_jobs[r] /\ all_jobs'[r] # <<>>)
                => Last(all_jobs'[r]).id \notin DOMAIN store]_vars

\* a later run is about to ask job_seen about an identifier an earlier run
\* recorded
RecordedByEarlierRun ==
    /\ pc[1] = "job_seen"
    /\ Head(jobs[1]).id \in DOMAIN store
    /\ store[Head(jobs[1]).id].first_seen < clock
    /\ all_jobs[1] = <<>>

\* C3: no posting whose salary text normalises to None is handed to dedup or
\* stands in the digest.
AbsentCompensationRejected ==
    \A r \in RunIds :
        /\ \A i \in 1..Len(jobs[r]) :
             extract_salary_in_inr(jobs[r][i].salary_text) # NoneInt
        /\ \A i \in 1..Len(all_jobs[r]) :
             extract_salary_in_inr(all_jobs[r][i].salary_text) # NoneInt

\* C4: the digest handed to send_email holds no posting whose identifier
\* has no row in the store.
DigestIsRecorded ==
    \A r \in RunIds : pc[r] = "send" => Ids(all_jobs[r]) \subseteq DOMAIN store

\* C5: whatever happens while a source is fetched or its postings are
\* processed, the run stays in the loop over SITE_HANDLERS, moves through
\* the sources one by one, and leaves the loop for the delivery step exactly
\* when the last source is done.
SourceFailureNeverAborts ==
    [][\A r \in RunIds :
         pc[r] \in {"fetch", "job_seen", "mark_job_seen"} =>
            /\ pc'[r] \in {"fetch", "job_seen", "mark_job_seen", "send"}
            /\ src'[r] \in {src[r], src[r] + 1}
            /\ pc'[r] = "send" <=> src'[r] = NSites + 1]_vars

\* a run in which a source raised has gone on to the delivery step
DeliveryAfterSourceError ==
    /\ pc[1] = "send"
    /\ "Error in" \in log[1]
    /\ src[1] = NSites + 1

\* C6: a run never ends by the exception of a failed delivery.
DeliveryFailureNotFatal ==
    \A r \in RunIds :
        ~(pc[r] = "raised" /\ "Traceback smtplib.SMTPException" \in log[r])

\* C7: the digest handed to send_email is ordered by relevance_score,
\* highest first.
DigestOrderedByScore ==
    \A r \in RunIds : pc[r] = "send" =>
        \A i, k \in 1..Len(all_jobs[r]) :
            i < k => relevance_score(all_jobs[r][i]) >= relevance_score(all_jobs[r][k])


\* where the decimal point of ds stands, 0 if it has none
PointAt(ds) ==
    IF \E i \in 1..Len(ds) : ds[i] = "."
    THEN CHOOSE i \in 1..Len(ds) : ds[i] = "."
    ELSE 0

\* (units * 100000) / 12 truncated, units being the decimal ds
MonthlyOfLakhs(ds) ==
    LET p      == PointAt(ds)
        digits == IF p = 0 THEN ds
                  ELSE SubSeq(ds, 1, p - 1) \o SubSeq(ds, p + 1, Len(ds))
        places == IF p = 0 THEN 0 ELSE Len(ds) - p
    IN  (int(digits) * RupeesPerLakh) \div (Pow10(places) * MonthsPerYear)

\* the three rules in their order, the first that matches deciding
FirstMatchingRule(s0) ==
    IF s0 = None \/ s0 = <<>> THEN NoneInt
    ELSE LET s  == lower(remove_char(s0, ","))
         IN  IF SearchRupee(s) # NoMatch THEN int(SearchRupee(s))
             ELSE IF SearchK(s) # NoMatch THEN int(SearchK(s)) * RupeesPerK
             ELSE IF SearchLpa(s) # NoMatch THEN MonthlyOfLakhs(SearchLpa(s))
             ELSE NoneInt

\* C8: extract_salary_in_inr returns what the first matching rule gives:
\* the integer after the rupee sign, the integer before k times 1000, or the
\* lakhs per annum times 100000 over 12, truncated; None for no match.
SalaryRulesInOrder ==
    call_pc = "return" => ret_val = FirstMatchingRule(arg_s)

\* run r has ended with its message, id among its jobs, accepted
Delivered(r, id) ==
    /\ pc[r] = "END"
    /\ "Email sent with" \in log[r]
    /\ id \in Ids(all_jobs[r])

\* C9 as stated: every posting admitted and recorded is in the end in a
\* message the server accepted.
NoAdmittedPostingLost ==
    \A id \in AllIds :
        (id \in Ids(all_jobs[1]) /\ id \in DOMAIN store) ~> Delivered(1, id)

\* C9: a posting is delivered only by the run that admitted it: an
\* identifier with a row in the store that is not in a run's digest stays
\* recorded, stays out of that digest and is not in a message of that run,
\* so the postings of a run that ended without sending are never delivered.
RecordedNeverReadmitted ==
    [][\A r \in RunIds : \A id \in DOMAIN store :
         id \notin Ids(all_jobs[r]) =>
            /\ id \in DOMAIN store'
            /\ id \notin Ids(all_jobs'[r])
            /\ ~Delivered(r, id)']_vars

\* a run has ended without sending the postings it recorded
RecordedAndNotSent ==
    /\ pc[1] \in {"END", "raised"}
    /\ all_jobs[1] # <<>>
    /\ Ids(all_jobs[1]) \subseteq DOMAIN store
    /\ "Email sent with" \notin log[1]

\* C10: no identifier is in the digests of both of two overlapping runs.
AtMostOneRunAdmits ==
    \A id \in AllIds :
        ~(id \in Ids(all_jobs[1]) /\ id \in Ids(all_jobs[2]))

=============================================================================
